---- MODULE Spec2Model ----
(***************************************************************************)
(* Model of the post-image-processor lambdas                              *)
(* (src/post-image-processor/index_with_bedrock.mjs and index_old.mjs).   *)
(*                                                                         *)
(* Both files export one async `handler(event)` that shares module-level   *)
(* clients (s3, mongo, qdrant, rekognition/bedrock or openai).  JavaScript *)
(* runs the code between two awaits atomically, so the model has one       *)
(* action per await: the action delivers the outcome of the awaited call   *)
(* and runs the synchronous code up to the next await, which issues the    *)
(* next remote call.                                                       *)
(*                                                                         *)
(* Text is modelled as sequences of one-character strings so that split,   *)
(* replace, trim, lower-casing and percent-decoding are computed.          *)
(***************************************************************************)
EXTENDS Integers, Sequences, FiniteSets, TLC

VARIABLES
    variant,    \* which file is deployed: "bedrock" | "old"
    mongo,      \* state of the module-level MongoClient: "new" | "connected" | "closed"
    posts,      \* collection spotter.posts: ObjectId -> document (field name -> value)
    qdrant,     \* collection "posts" of the vector index: set of points
    uuids,      \* number of ids uuidv4() has produced so far
    runs,       \* number of handler invocations started so far
    delivered,  \* number of event records handed to the handler so far
    concurrency,\* how many invocations the runtime lets overlap in this process
    inv,        \* per invocation slot: position, event, locals, pending return, trace
    history     \* every successful upsert ever made: [run, rec, key, id, fresh]

vars == <<variant, mongo, posts, qdrant, uuids, runs, delivered, concurrency, inv, history>>

----------------------------------------------------------------------------
(* Bounds of the model *)

\* handler invocations that may be in progress at once in one process
NumInv == 2
\* handler invocations started in one behaviour
MaxRuns == 2
\* event records delivered in one behaviour, over all its events
MaxRecords == 2

Invocations == 1..NumInv

----------------------------------------------------------------------------
(* Text helpers: a text is a sequence of one-character strings *)

Undefined == "undefined"

HexLower == {"0","1","2","3","4","5","6","7","8","9","a","b","c","d","e","f"}
HexUpper == {"A","B","C","D","E","F"}
HexDigit == HexLower \cup HexUpper

WhiteSpace == {" ", "\t", "\n"}

\* String.prototype.toLowerCase, on the letters the model uses
LowerOf(c) ==
    CASE c = "A" -> "a" [] c = "B" -> "b" [] c = "C" -> "c" [] c = "D" -> "d"
      [] c = "E" -> "e" [] c = "F" -> "f" [] c = "S" -> "s" [] c = "K" -> "k"
      [] c = "Y" -> "y" [] OTHER -> c

toLowerCase(s) == [k \in 1..Len(s) |-> LowerOf(s[k])]

\* String.prototype.trim
RECURSIVE TrimLeft(_)
TrimLeft(s) == IF s # <<>> /\ Head(s) \in WhiteSpace THEN TrimLeft(Tail(s)) ELSE s

RECURSIVE TrimRight(_)
TrimRight(s) ==
    IF s # <<>> /\ s[Len(s)] \in WhiteSpace THEN TrimRight(SubSeq(s, 1, Len(s) - 1)) ELSE s

trim(s) == TrimRight(TrimLeft(s))

\* s.replace(/\+/g, " ")
replacePlus(s) == [k \in 1..Len(s) |-> IF s[k] = "+" THEN " " ELSE s[k]]

\* s.split(sep) for a one-character separator: the sequence of segments
RECURSIVE SplitFrom(_, _, _, _)
SplitFrom(s, sep, cur, acc) ==
    IF s = <<>> THEN Append(acc, cur)
    ELSE IF Head(s) = sep THEN SplitFrom(Tail(s), sep, <<>>, Append(acc, cur))
    ELSE SplitFrom(Tail(s), sep, Append(cur, Head(s)), acc)

split(s, sep) == SplitFrom(s, sep, <<>>, <<>>)

\* Array.prototype.join
RECURSIVE join(_, _)
join(parts, sep) ==
    IF parts = <<>> THEN <<>>
    ELSE IF Len(parts) = 1 THEN parts[1]
    ELSE parts[1] \o sep \o join(Tail(parts), sep)

\* JavaScript's zero-based arr[k] is undefined past the end
Defined(arr, k) == k + 1 <= Len(arr)
At(arr, k) == arr[k + 1]

\* The escapes decodeURIComponent resolves in the model (ASCII, one byte)
PercentTable ==
    [p \in {<<"2","F">>, <<"2","f">>, <<"2","E">>, <<"2","e">>, <<"2","0">>,
            <<"2","B">>, <<"2","b">>, <<"2","5">>} |->
        CASE p \in {<<"2","F">>, <<"2","f">>} -> "/"
          [] p \in {<<"2","E">>, <<"2","e">>} -> "."
          [] p = <<"2","0">> -> " "
          [] p \in {<<"2","B">>, <<"2","b">>} -> "+"
          [] OTHER -> "%"]

\* decodeURIComponent: [ok |-> TRUE, val |-> decoded text], or ok |-> FALSE
\* (it throws URIError) for a "%" that no escape follows.  The keys of the
\* model use no escape outside PercentTable.
RECURSIVE decodeFrom(_, _)
decodeFrom(s, acc) ==
    IF s = <<>> THEN [ok |-> TRUE, val |-> acc]
    ELSE IF Head(s) # "%" THEN decodeFrom(Tail(s), Append(acc, Head(s)))
    ELSE IF Len(s) >= 3 /\ <<s[2], s[3]>> \in DOMAIN PercentTable
         THEN decodeFrom(SubSeq(s, 4, Len(s)), Append(acc, PercentTable[<<s[2], s[3]>>]))
         ELSE [ok |-> FALSE, val |-> <<>>]

decodeURIComponent(s) == decodeFrom(s, <<>>)

----------------------------------------------------------------------------
(* Object ids, documents, points *)

\* An ObjectId is written as 24 hex characters
OidHexLen == 24

\* new ObjectId(text): [ok |-> TRUE, val |-> the id, in canonical lower case],
\* or ok |-> FALSE (the constructor throws) for a text that is no such string
ObjectId(text) ==
    IF Len(text) = OidHexLen /\ \A k \in 1..Len(text) : text[k] \in HexDigit
    THEN [ok |-> TRUE, val |-> toLowerCase(text)]
    ELSE [ok |-> FALSE, val |-> <<>>]

\* doc.field, undefined when the document has no such field
HasField(doc, f) == f \in DOMAIN doc

\* the update operator { $set: fields } applied to a document
SetFields(doc, fields) ==
    [f \in DOMAIN doc \cup DOMAIN fields |->
        IF f \in DOMAIN fields THEN fields[f] ELSE doc[f]]

\* (mutant) the document is replaced by the given fields (replaceOne)
updateOneReplace(coll, oid, fields) ==
    IF oid \in DOMAIN coll
    THEN [coll EXCEPT ![oid] = fields]
    ELSE coll

\* posts.updateOne({ _id: oid }, { $set: fields }): the first matching document
\* is updated in place; no document matching changes nothing (no upsert option)
updateOne(coll, oid, fields) ==
    IF oid \in DOMAIN coll
    THEN [coll EXCEPT ![oid] = SetFields(@, fields)]
    ELSE coll

\* posts.findOne({ _id: oid })
Found(coll, oid) == oid \in DOMAIN coll

\* qdrant.upsert("posts", { points: [p] }): insert, or overwrite the point of
\* the same id
upsert(points, p) == {q \in points : q.id # p.id} \cup {p}

----------------------------------------------------------------------------
(* The inputs of the model *)

Rep(c) == [k \in 1..OidHexLen |-> c]

IdA == Rep("a")
IdB == Rep("b")
IdC == Rep("c")

TxtPosts == <<"p","o","s","t","s">>
TxtJpg == <<".","j","p","g">>

\* posts/u1/<IdA>.jpg: the post exists and has a caption
KeyA == TxtPosts \o <<"/","u","1","/">> \o IdA \o TxtJpg
\* posts/u1/<IdC>.jpg: no such post
KeyMissing == TxtPosts \o <<"/","u","1","/">> \o IdC \o TxtJpg
\* posts/<IdA>.jpg: two segments
KeyShort == TxtPosts \o <<"/">> \o IdA \o TxtJpg
\* my+posts%2Fu2%2F<IdB>.png: three segments once decoded; the post exists and
\* has no caption
KeyEncoded == <<"m","y","+">> \o TxtPosts \o <<"%","2","F","u","2","%","2","F">> \o IdB \o <<".","p","n","g">>
\* posts/u1/p1.jpg: three segments, and "p1" is no ObjectId
KeyBadId == TxtPosts \o <<"/","u","1","/","p","1">> \o TxtJpg
\* posts/u1/%: not decodable
KeyMalformed == TxtPosts \o <<"/","u","1","/","%">>

Keys == {KeyA, KeyMissing, KeyShort, KeyEncoded, KeyBadId, KeyMalformed}

\* event.Records, each record reduced to its s3.object.key
EventsUpTo(len) == UNION {[1..n -> Keys] : n \in 0..len}

\* The collection as the upload flow left it
InitialPosts ==
    (IdA :> [f \in {"_id", "userId", "caption", "status", "imageUrl"} |->
                CASE f = "_id" -> IdA
                  [] f = "userId" -> "u1"
                  [] f = "caption" -> <<"s","u","n">>
                  [] f = "status" -> "pending"
                  [] OTHER -> KeyA])
    @@
    (IdB :> [f \in {"_id", "userId", "status", "imageUrl"} |->
                CASE f = "_id" -> IdB
                  [] f = "userId" -> "u2"
                  [] f = "status" -> "pending"
                  [] OTHER -> KeyEncoded])

\* What DetectLabels may answer: Labels, each reduced to its Name
LabelAnswers == { <<>>, << <<"S","k","y">>, <<"C","l","o","u","d">> >> }

\* What the vision model may answer: choices[0].message.content (the last
\* answer is blank)
VisionAnswers == { <<" ","a"," ","c","a","t","\n">>, <<"s","k","y">>, <<"\n">> }

\* What the embedding model may answer for an input text: one vector, which
\* differs between the texts of the model
EmbeddingAnswers(text) == { <<Len(text), 1>> }

----------------------------------------------------------------------------
(* The handler's responses and errors *)

\* JSON.stringify({ success: true })
StringifySuccess == "{\"success\":true}"

\* JSON.stringify({ error: message })
StringifyError(message) == "{\"error\":\"" \o message \o "\"}"

Response200 == [statusCode |-> 200, body |-> StringifySuccess]

\* (mutant) the catch block answers with a fixed text
Response500Generic(message) ==
    [statusCode |-> 500, body |-> StringifyError("Internal Server Error")]

Response500(message) == [statusCode |-> 500, body |-> StringifyError(message)]

NoResponse == [statusCode |-> 0, body |-> ""]

\* error.message of what the synchronous code throws
MsgURIError == "URI malformed"
MsgTypeError == "Cannot read properties of undefined (reading 'split')"
MsgBSONError == "input must be a 24 character hex string, 12 byte Uint8Array, or an integer"

\* error.message of a remote call that rejects
MsgOf(op) == op \o " failed"

RemoteOps == {"connect", "findOne", "download", "describe", "embed", "update", "upsert", "close"}

----------------------------------------------------------------------------
(* One invocation: its position (the await it is suspended in), its locals,
   and the trace of what it did *)

Ev(op, rec, ev, msg) == [op |-> op, rec |-> rec, ev |-> ev, msg |-> msg]

NoPoint == [id |-> 0, vector |-> <<>>, payload |-> <<>>]

Idle ==
    [pc |-> "idle", run |-> 0, event |-> <<>>, idx |-> 0,
     key |-> <<>>, postId |-> <<>>, userId |-> Undefined, caption |-> <<>>,
     imageDescription |-> <<>>, combinedText |-> <<>>, embedding |-> <<>>,
     embeddingId |-> 0, point |-> NoPoint,
     pending |-> {}, ret |-> NoResponse, result |-> NoResponse, log |-> <<>>]

\* the record the call awaited at r.pc belongs to (0: the whole invocation)
AwaitedRec(r) == IF r.pc \in {"connect", "close"} THEN 0 ELSE r.idx

\* `await <op>(...)`: the call is issued and the invocation is suspended in it
Await(r, op, rec) ==
    [r EXCEPT !.pc = op,
              !.pending = @ \cup {<<op, rec>>},
              !.log = Append(@, Ev(op, rec, "issue", ""))]

\* the awaited call completed with outcome ev ("ok", "null" or "fail")
Resume(r, ev, msg) ==
    [r EXCEPT !.pending = @ \ {<<r.pc, AwaitedRec(r)>>},
              !.log = Append(@, Ev(r.pc, AwaitedRec(r), ev, msg))]

\* finally { await mongo.close(); } with the value the try or catch block
\* returned held until the close completes
Finally(r, response) == Await([r EXCEPT !.ret = response], "close", 0)

\* (mutant) the catch block returns at once, with no finally block behind it
CatchNoFinally(r, message) ==
    [r EXCEPT !.pc = "returned", !.ret = Response500(message),
              !.result = Response500(message)]

\* catch (error) { return { statusCode: 500, body: {error: error.message} } }
Catch(r, message) == Finally(r, Response500(message))

\* synchronous code threw while handling record rec
Thrown(r, rec, message) ==
    Catch([r EXCEPT !.log = Append(@, Ev("decode", rec, "fail", message))], message)

\* return { statusCode: 200, ... } after the loop
ReturnSuccess(r) == Finally(r, Response200)

\* (mutant) the segment is read with optional chaining, `[2]?.split(".")[0]`:
\* a short path yields no post id, ObjectId() draws a new one and the lookup
\* is issued
IterationOptionalChaining(r, k) ==
    IF k > Len(r.event) THEN ReturnSuccess([r EXCEPT !.idx = k])
    ELSE
      LET r1 == [r EXCEPT !.idx = k, !.log = Append(@, Ev("iter", k, "begin", ""))]
          key == decodeURIComponent(replacePlus(r.event[k]))
      IN  IF ~key.ok THEN Thrown(r1, k, MsgURIError)
          ELSE
            LET segments == split(key.val, "/")
            IN  IF ~Defined(segments, 2)
                THEN Await([r1 EXCEPT !.key = key.val, !.postId = Rep("0")], "findOne", k)
                ELSE
                  LET postId == At(split(At(segments, 2), "."), 0)
                  IN  IF ~ObjectId(postId).ok THEN Thrown(r1, k, MsgBSONError)
                      ELSE Await([r1 EXCEPT !.key = key.val, !.postId = postId],
                                 "findOne", k)

\* One pass of `for (const record of event.Records)` from record k, up to the
\* first await: the key is decoded, the post id is cut out of it and findOne
\* is issued; past the last record the handler returns
Iteration(r, k) ==
    IF k > Len(r.event) THEN ReturnSuccess([r EXCEPT !.idx = k])
    ELSE
      LET r1 == [r EXCEPT !.idx = k, !.log = Append(@, Ev("iter", k, "begin", ""))]
          key == decodeURIComponent(replacePlus(r.event[k]))
      IN  IF ~key.ok THEN Thrown(r1, k, MsgURIError)
          ELSE
            LET segments == split(key.val, "/")
            IN  IF ~Defined(segments, 2) THEN Thrown(r1, k, MsgTypeError)
                ELSE
                  LET postId == At(split(At(segments, 2), "."), 0)
                  IN  IF ~ObjectId(postId).ok THEN Thrown(r1, k, MsgBSONError)
                      ELSE Await([r1 EXCEPT !.key = key.val, !.postId = postId],
                                 "findOne", k)

\* `continue` and the end of the loop body both go on to the next record
NextRecord(r) == Iteration(r, r.idx + 1)

\* (mutant) a rejected call is caught inside the loop and the loop goes on
RejectedContinues(r) == NextRecord(Resume(r, "fail", MsgOf(r.pc)))

\* (mutant) the first call that rejects is issued once more
RejectedRetriesOnce(r) ==
    IF \A n \in DOMAIN r.log : r.log[n].ev # "fail"
    THEN Await(Resume(r, "fail", MsgOf(r.pc)), r.pc, AwaitedRec(r))
    ELSE Catch(Resume(r, "fail", MsgOf(r.pc)), MsgOf(r.pc))

\* the awaited call rejected: control goes to the catch block
Rejected(r) == Catch(Resume(r, "fail", MsgOf(r.pc)), MsgOf(r.pc))

----------------------------------------------------------------------------
(* The steps of one record *)

\* const { userId, caption = "" } = post
UserIdOf(post) == IF HasField(post, "userId") THEN post["userId"] ELSE Undefined
CaptionOf(post) == IF HasField(post, "caption") THEN post["caption"] ELSE <<>>

\* `A imagem contém: ${labels.toLowerCase()}.` with
\* labels = rekResp.Labels.map((l) => l.Name).join(", ")
TxtPrefix == <<"A"," ","i","m","a","g","e","m"," ","c","o","n","t","é","m",":"," ">>
DescribeLabels(names) == TxtPrefix \o toLowerCase(join(names, <<",", " ">>)) \o <<".">>

\* visionResponse.choices[0].message.content.trim()
DescribeVision(content) == trim(content)

\* (mutant) the joined text is not trimmed
CombineNoTrim(caption, imageDescription) ==
    IF caption # <<>> THEN caption \o <<" ">> \o imageDescription
    ELSE imageDescription

\* caption ? `${caption} ${imageDescription}`.trim() : imageDescription
Combine(caption, imageDescription) ==
    IF caption # <<>> THEN trim(caption \o <<" ">> \o imageDescription)
    ELSE imageDescription

\* (mutant) the point id does not change from call to call
uuidv4Fixed(n) == 1

\* uuidv4(): an id no earlier call returned
uuidv4(n) == n + 1

\* new Date(): the invocation count stands for the time
Now == runs

\* (mutant) the update forgets the status
UpdateFieldsNoStatus(r) ==
    IF variant = "bedrock"
    THEN ("embeddingId" :> r.embeddingId)
    ELSE ("imageDescription" :> r.imageDescription)

\* the $set of posts.updateOne
UpdateFields(r) ==
    IF variant = "bedrock"
    THEN ("status" :> "processed") @@ ("embeddingId" :> r.embeddingId)
    ELSE ("status" :> "processed") @@ ("imageDescription" :> r.imageDescription)

\* (mutant) the payload carries the combined text as the description
PayloadCombinedText(r) ==
    IF variant = "bedrock"
    THEN [postId |-> r.postId, userId |-> r.userId, caption |-> r.caption,
          imageDescription |-> r.combinedText]
    ELSE [postId |-> r.postId, userId |-> r.userId, caption |-> r.caption,
          imageDescription |-> r.combinedText, createdAt |-> Now]

\* the payload of the point given to qdrant.upsert
Payload(r) ==
    IF variant = "bedrock"
    THEN [postId |-> r.postId, userId |-> r.userId, caption |-> r.caption,
          imageDescription |-> r.imageDescription]
    ELSE [postId |-> r.postId, userId |-> r.userId, caption |-> r.caption,
          imageDescription |-> r.imageDescription, createdAt |-> Now]

Point(r, id) == [id |-> id, vector |-> r.embedding, payload |-> Payload(r)]

\* findOne returned the post: destructure it and fetch the image
OnPost(r, post) ==
    Await([r EXCEPT !.userId = UserIdOf(post), !.caption = CaptionOf(post)],
          "download", r.idx)

\* (mutant) a post that is not found is thrown as an error
OnMissingThrows(r) == Catch(r, "not found")

\* findOne returned null: console.warn and `continue`
OnMissing(r) == NextRecord(r)

\* (mutant) the caption alone is embedded, before the image is described
OnImageEmbedsFirst(r) ==
    Await([r EXCEPT !.combinedText = r.caption], "embed", r.idx)

\* the image is there: ask for its description
OnImage(r) == Await(r, "describe", r.idx)

\* the description is there: combine it with the caption and ask for the embedding
OnDescription(r, description) ==
    Await([r EXCEPT !.imageDescription = description,
                    !.combinedText = Combine(r.caption, description)],
          "embed", r.idx)

\* the embedding is there: update the post (index_with_bedrock draws the
\* embedding id first and stores it)
OnEmbedding(r, vector) ==
    Await([r EXCEPT !.embedding = vector,
                    !.embeddingId = IF variant = "bedrock" THEN uuidv4(uuids) ELSE @],
          "update", r.idx)

\* (mutant) the upsert is issued without `await` and the loop goes on
OnUpdatedNoAwait(r) ==
    NextRecord([r EXCEPT !.pending = @ \cup {<<"upsert", r.idx>>},
                         !.log = Append(@, Ev("upsert", r.idx, "issue", ""))])

\* the post is updated: upsert the point (index_old draws the point id here)
OnUpdated(r) ==
    Await([r EXCEPT !.point = Point(r, IF variant = "bedrock" THEN r.embeddingId
                                                             ELSE uuidv4(uuids))],
          "upsert", r.idx)

\* the point is upserted: the record is done
OnUpserted(r) == NextRecord(r)

\* mongo.close() completed: the handler's promise resolves with the held value
Return(r) == [Resume(r, "ok", "") EXCEPT !.pc = "returned", !.result = r.ret]

----------------------------------------------------------------------------
(* Actions: one per await of the handler *)

Running == {i \in Invocations : inv[i].pc \notin {"idle", "returned"}}

Lowest(S) == CHOOSE x \in S : \A y \in S : x <= y

\* The runtime calls handler(event): the code up to `await mongo.connect()`
Invoke(i) ==
    /\ runs < MaxRuns
    /\ Cardinality(Running) < concurrency
    /\ i = Lowest(Invocations \ Running)
    /\ \E ev \in EventsUpTo(MaxRecords - delivered) :
          /\ delivered' = delivered + Len(ev)
          /\ inv' = [inv EXCEPT ![i] =
                       Await([Idle EXCEPT !.run = runs + 1, !.event = ev], "connect", 0)]
    /\ runs' = runs + 1
    /\ UNCHANGED <<variant, mongo, posts, qdrant, uuids, concurrency, history>>

\* `await mongo.connect()` completes
AfterConnect(i) ==
    /\ inv[i].pc = "connect"
    /\ \/ /\ mongo' = "connected"
          /\ inv' = [inv EXCEPT ![i] = Iteration(Resume(@, "ok", ""), 1)]
       \/ /\ mongo' = mongo
          /\ inv' = [inv EXCEPT ![i] = Rejected(@)]
    /\ UNCHANGED <<variant, posts, qdrant, uuids, runs, delivered, concurrency, history>>

\* `await posts.findOne(...)` completes.  On a client that another invocation
\* closed the driver either rejects or reconnects by itself.
AfterFindOne(i) ==
    LET r == inv[i]
        oid == ObjectId(r.postId).val
    IN  /\ r.pc = "findOne"
        /\ \/ /\ Found(posts, oid)
              /\ mongo' = "connected"
              /\ inv' = [inv EXCEPT ![i] = OnPost(Resume(r, "ok", ""), posts[oid])]
           \/ /\ ~Found(posts, oid)
              /\ mongo' = "connected"
              /\ inv' = [inv EXCEPT ![i] = OnMissing(Resume(r, "null", ""))]
           \/ /\ mongo' = mongo
              /\ inv' = [inv EXCEPT ![i] = Rejected(r)]
        /\ UNCHANGED <<variant, posts, qdrant, uuids, runs, delivered, concurrency, history>>

\* `await downloadImage(bucket, key)` completes
AfterDownload(i) ==
    LET r == inv[i]
    IN  /\ r.pc = "download"
        /\ \/ inv' = [inv EXCEPT ![i] = OnImage(Resume(r, "ok", ""))]
           \/ inv' = [inv EXCEPT ![i] = Rejected(r)]
        /\ UNCHANGED <<variant, mongo, posts, qdrant, uuids, runs, delivered, concurrency, history>>

\* `await rekognition.send(...)` / `await openai.chat.completions.create(...)`
\* completes
AfterDescribe(i) ==
    LET r == inv[i]
    IN  /\ r.pc = "describe"
        /\ \/ /\ variant = "bedrock"
              /\ \E names \in LabelAnswers :
                    inv' = [inv EXCEPT ![i] =
                              OnDescription(Resume(r, "ok", ""), DescribeLabels(names))]
           \/ /\ variant = "old"
              /\ \E content \in VisionAnswers :
                    inv' = [inv EXCEPT ![i] =
                              OnDescription(Resume(r, "ok", ""), DescribeVision(content))]
           \/ inv' = [inv EXCEPT ![i] = Rejected(r)]
        /\ UNCHANGED <<variant, mongo, posts, qdrant, uuids, runs, delivered, concurrency, history>>

\* `await bedrock.send(...)` / `await openai.embeddings.create(...)` completes
AfterEmbed(i) ==
    LET r == inv[i]
    IN  /\ r.pc = "embed"
        /\ \/ /\ \E vector \in EmbeddingAnswers(r.combinedText) :
                    inv' = [inv EXCEPT ![i] = OnEmbedding(Resume(r, "ok", ""), vector)]
              /\ uuids' = IF variant = "bedrock" THEN uuidv4(uuids) ELSE uuids
           \/ /\ inv' = [inv EXCEPT ![i] = Rejected(r)]
              /\ uuids' = uuids
        /\ UNCHANGED <<variant, mongo, posts, qdrant, runs, delivered, concurrency, history>>

\* `await posts.updateOne(...)` completes
AfterUpdate(i) ==
    LET r == inv[i]
        oid == ObjectId(r.postId).val
    IN  /\ r.pc = "update"
        /\ \/ /\ posts' = updateOne(posts, oid, UpdateFields(r))
              /\ mongo' = "connected"
              /\ inv' = [inv EXCEPT ![i] = OnUpdated(Resume(r, "ok", ""))]
              /\ uuids' = IF variant = "old" THEN uuidv4(uuids) ELSE uuids
           \/ /\ inv' = [inv EXCEPT ![i] = Rejected(r)]
              /\ UNCHANGED <<posts, mongo, uuids>>
        /\ UNCHANGED <<variant, qdrant, runs, delivered, concurrency, history>>

\* `await qdrant.upsert(...)` completes
AfterUpsert(i) ==
    LET r == inv[i]
    IN  /\ r.pc = "upsert"
        /\ \/ /\ qdrant' = upsert(qdrant, r.point)
              /\ history' = history \cup
                    {[run |-> r.run, rec |-> r.idx, key |-> r.event[r.idx],
                      id |-> r.point.id,
                      fresh |-> r.point.id \notin {q.id : q \in qdrant}]}
              /\ inv' = [inv EXCEPT ![i] = OnUpserted(Resume(r, "ok", ""))]
           \/ /\ inv' = [inv EXCEPT ![i] = Rejected(r)]
              /\ UNCHANGED <<qdrant, history>>
        /\ UNCHANGED <<variant, mongo, posts, uuids, runs, delivered, concurrency>>

\* `await mongo.close()` completes and the handler returns
AfterClose(i) ==
    /\ inv[i].pc = "close"
    /\ mongo' = "closed"
    /\ inv' = [inv EXCEPT ![i] = Return(@)]
    /\ UNCHANGED <<variant, posts, qdrant, uuids, runs, delivered, concurrency, history>>

Next ==
    \E i \in Invocations :
        \/ Invoke(i)
        \/ AfterConnect(i)
        \/ AfterFindOne(i)
        \/ AfterDownload(i)
        \/ AfterDescribe(i)
        \/ AfterEmbed(i)
        \/ AfterUpdate(i)
        \/ AfterUpsert(i)
        \/ AfterClose(i)

Start(c) ==
    /\ variant \in {"bedrock", "old"}
    /\ mongo = "new"
    /\ posts = InitialPosts
    /\ qdrant = {}
    /\ uuids = 0
    /\ runs = 0
    /\ delivered = 0
    /\ concurrency = c
    /\ inv = [i \in Invocations |-> Idle]
    /\ history = {}

\* The Lambda runtime: an execution environment handles one invocation at a
\* time, and the module state (the clients) outlives each invocation
Init == Start(1)

Spec == Init /\ [][Next]_vars

\* A host that calls handler again while an earlier call is suspended
InitConcurrent == Start(NumInv)

SpecConcurrent == InitConcurrent /\ [][Next]_vars

\* What the upload flow may have stored as the caption of a post: nothing typed,
\* a word, blanks only, a word between blanks
Captions == { <<>>, <<"c","a","p">>, <<" ">>, <<" ","x"," ">> }

\* The collection with post A's caption drawn from Captions (post B has none)
PostsWithCaption(c) == [InitialPosts EXCEPT ![IdA] = SetFields(@, "caption" :> c)]

\* The runtime of Init over each of these collections
InitCaptions ==
    /\ variant \in {"bedrock", "old"}
    /\ mongo = "new"
    /\ posts \in {PostsWithCaption(c) : c \in Captions}
    /\ qdrant = {}
    /\ uuids = 0
    /\ runs = 0
    /\ delivered = 0
    /\ concurrency = 1
    /\ inv = [i \in Invocations |-> Idle]
    /\ history = {}

SpecCaptions == InitCaptions /\ [][Next]_vars

----------------------------------------------------------------------------
(* Reading an invocation's trace *)

Log(i) == inv[i].log

Returned(i) == inv[i].pc = "returned"

Happened(i, op, rec, ev) ==
    \E n \in DOMAIN Log(i) :
        Log(i)[n].op = op /\ Log(i)[n].rec = rec /\ Log(i)[n].ev = ev

Times(i, op, rec, ev) ==
    Cardinality({n \in DOMAIN Log(i) :
        Log(i)[n].op = op /\ Log(i)[n].rec = rec /\ Log(i)[n].ev = ev})

Failures(i) == {n \in DOMAIN Log(i) : Log(i)[n].ev = "fail"}

RecordOps == {"findOne", "download", "describe", "embed", "update", "upsert"}
AfterLookupOps == {"download", "describe", "embed", "update", "upsert"}
BackendOps == {"describe", "embed", "update", "upsert"}

\* every step of record k succeeded
Processed(i, k) ==
    /\ Happened(i, "findOne", k, "ok")
    /\ \A op \in AfterLookupOps : Happened(i, op, k, "ok")

\* the post each well-formed key of the model names
ExpectedPostId == (KeyA :> IdA) @@ (KeyEncoded :> IdB)

\* the successful upserts of record k of the invocation in slot i
UpsertsOf(i, k) == {h \in history : h.run = inv[i].run /\ h.rec = k}

----------------------------------------------------------------------------
(* Claims *)

\* C1: when the handler has returned, every record whose post exists and whose
\* fetch, describe, embed, persist and index steps all succeeded has left its
\* post with status "processed" and added exactly one new point, whose
\* payload postId is the post id written in the record's path.
C1_SuccessfulRun ==
    \A i \in Invocations :
        Returned(i) =>
            \A k \in DOMAIN inv[i].event :
                Processed(i, k) =>
                    LET key == inv[i].event[k]
                    IN  /\ key \in DOMAIN ExpectedPostId
                        /\ posts[ExpectedPostId[key]]["status"] = "processed"
                        /\ Times(i, "upsert", k, "ok") = 1
                        /\ Cardinality(UpsertsOf(i, k)) = 1
                        /\ \A h \in UpsertsOf(i, k) :
                              /\ h.fresh
                              /\ \E q \in qdrant :
                                    /\ q.id = h.id
                                    /\ q.payload.postId = ExpectedPostId[key]

\* C1 witness: a returned invocation that processed an encoded key's record
C1_Witness ==
    \E i \in Invocations :
        /\ Returned(i)
        /\ \E k \in DOMAIN inv[i].event :
              /\ inv[i].event[k] = KeyEncoded
              /\ Processed(i, k)
              /\ posts[IdB]["status"] = "processed"
              /\ \E q \in qdrant : q.payload.postId = IdB

\* C2: once a backend call (describe, embed, persist, index) of record k has
\* failed, the invocation makes no remote call for, and does not even begin, any
\* later record, and it returns statusCode 500 with that error's message.
C2_BackendFailureAborts ==
    \A i \in Invocations :
        \A n \in Failures(i) :
            Log(i)[n].op \in BackendOps =>
                /\ \A m \in DOMAIN Log(i) : Log(i)[m].rec <= Log(i)[n].rec
                /\ \A m \in DOMAIN Log(i) :
                      m > n => Log(i)[m].op = "close"
                /\ Returned(i) => inv[i].result = Response500(Log(i)[n].msg)
                /\ Log(i)[n].msg = MsgOf(Log(i)[n].op)

\* C2 witness: the first record's persist failed, a second record was waiting,
\* and the handler has returned
C2_Witness ==
    \E i \in Invocations :
        /\ Returned(i)
        /\ Len(inv[i].event) >= 2
        /\ Happened(i, "update", 1, "fail")
        /\ inv[i].result.statusCode = 500

C4_ClosedOnEveryExit ==
    \A i \in Invocations :
        /\ (Returned(i) \/ inv[i].result # NoResponse) =>
              /\ mongo = "closed"
              /\ Log(i)[Len(Log(i))] = Ev("close", 0, "ok", "")
              /\ Times(i, "close", 0, "issue") = 1
        /\ \A n \in DOMAIN Log(i) :
              (n > 1 /\ Log(i)[n - 1].op = "close") => Log(i)[n].op = "close"

\* C4 witness: returned invocations exist for a failed connect, a failed
\* persist, a decode failure and a full success alike; here the persist one
C4_Witness ==
    \E i \in Invocations :
        /\ Returned(i)
        /\ Happened(i, "update", 1, "fail")
        /\ mongo = "closed"

\* the keys whose decoded text has fewer than three "/"-separated segments
ShortPaths ==
    {raw \in Keys :
        LET key == decodeURIComponent(replacePlus(raw))
        IN  key.ok /\ Len(split(key.val, "/")) < 3}

ShortPath(raw) == raw \in ShortPaths

\* C5 (as stated): when the decode of a short path fails, the invocation has
\* made no remote call before it: no connect, and no call for that record.
C5_NoRemoteCallBeforeDecodeError ==
    \A i \in Invocations :
        \A n \in Failures(i) :
            (Log(i)[n].op = "decode" /\ ShortPath(inv[i].event[Log(i)[n].rec])) =>
                \A m \in 1..(n - 1) :
                    ~(/\ Log(i)[m].ev = "issue"
                      /\ Log(i)[m].op \in RemoteOps
                      /\ Log(i)[m].rec \in {0, Log(i)[n].rec})

\* C5 (amended): when the loop reaches a record whose decoded key has fewer
\* than three segments, it throws at once (TypeError), no lookup, fetch,
\* describe, embed, persist or index call is ever made for that record, and the
\* handler answers 500 with that message; the connect of the invocation has
\* completed before.
C5_DecodeErrorBeforeRecordCalls ==
    \A i \in Invocations :
        \A n \in DOMAIN Log(i) :
            (Log(i)[n].op = "iter" /\ ShortPath(inv[i].event[Log(i)[n].rec])) =>
                LET k == Log(i)[n].rec
                IN  /\ n < Len(Log(i))
                    /\ Log(i)[n + 1] = Ev("decode", k, "fail", MsgTypeError)
                    /\ \A m \in DOMAIN Log(i) :
                          ~(Log(i)[m].rec = k /\ Log(i)[m].op \in RecordOps)
                    /\ inv[i].ret = Response500(MsgTypeError)
                    /\ Returned(i) => inv[i].result = Response500(MsgTypeError)
                    /\ \E m \in 1..(n - 1) : Log(i)[m] = Ev("connect", 0, "ok", "")

\* C5 witness: a returned invocation whose second record had the short path
C5_Witness ==
    \E i \in Invocations :
        /\ Returned(i)
        /\ Len(inv[i].event) >= 2
        /\ inv[i].event[2] = KeyShort
        /\ Happened(i, "decode", 2, "fail")
        /\ inv[i].result = Response500(MsgTypeError)

\* C6: the connection an invocation works on is its own: while an invocation is
\* between its successful connect and its own close (suspended in a call of
\* some record), no other invocation's cleanup has closed the client it uses.
C6_OwnConnection ==
    \A i \in Invocations :
        inv[i].pc \in RecordOps => mongo = "connected"

\* C7: two successful upserts for the same key (the same record of the same
\* event run twice, in particular) have different point ids, and both points
\* are in the index, with the same payload postId: the later one did not
\* overwrite the earlier one.
C7_RepeatedRunsDuplicate ==
    \A h1, h2 \in history :
        (h1 # h2 /\ h1.key = h2.key) =>
            /\ h1.id # h2.id
            /\ \E q1, q2 \in qdrant :
                  /\ q1.id = h1.id
                  /\ q2.id = h2.id
                  /\ q1 # q2
                  /\ q1.payload.postId = ExpectedPostId[h1.key]
                  /\ q2.payload.postId = ExpectedPostId[h1.key]

\* C7 witness: the same one-record event was run twice, both runs succeeded
\* and returned, and the index holds two points
C7_Witness ==
    /\ runs = 2
    /\ delivered = 2
    /\ \E h1, h2 \in history :
          /\ h1.run = 1 /\ h2.run = 2
          /\ h1.key = KeyA /\ h2.key = KeyA
    /\ \E i \in Invocations :
          Returned(i) /\ inv[i].run = 2 /\ inv[i].event = <<KeyA>>
    /\ Cardinality(qdrant) = 2

\* C8: an invocation never has two remote calls in flight; every call it issues
\* is answered before it does anything else; its records are taken in list
\* order, one by one; and record k+1 is begun only right after record k was
\* skipped as not found or its index call completed, its persist call having
\* completed before.
C8_SequentialRecords ==
    \A i \in Invocations :
        /\ Cardinality(inv[i].pending) <= 1
        /\ \A n \in DOMAIN Log(i) :
              /\ (Log(i)[n].ev = "issue" /\ n < Len(Log(i))) =>
                    /\ Log(i)[n + 1].op = Log(i)[n].op
                    /\ Log(i)[n + 1].rec = Log(i)[n].rec
                    /\ Log(i)[n + 1].ev \in {"ok", "null", "fail"}
              /\ (Log(i)[n].ev = "issue" /\ n = Len(Log(i))) =>
                    inv[i].pending = {<<Log(i)[n].op, Log(i)[n].rec>>}
              /\ (n > 1 /\ Log(i)[n].op # "close") =>
                    /\ Log(i)[n - 1].op # "close"
                    /\ Log(i)[n - 1].rec <= Log(i)[n].rec
              /\ (n > 1 /\ Log(i)[n - 1].rec < Log(i)[n].rec) =>
                    LET k == Log(i)[n - 1].rec
                    IN  /\ Log(i)[n] = Ev("iter", k + 1, "begin", "")
                        /\ k >= 1 =>
                              \/ Log(i)[n - 1] = Ev("findOne", k, "null", "")
                              \/ /\ Log(i)[n - 1] = Ev("upsert", k, "ok", "")
                                 /\ Log(i)[n - 3] = Ev("update", k, "ok", "")

\* C8 witness: the second record's lookup is in flight after the first record's
\* upsert completed
C8_Witness ==
    \E i \in Invocations :
        /\ Happened(i, "upsert", 1, "ok")
        /\ inv[i].pending = {<<"findOne", 2>>}

\* the first failure of the invocation in slot i
FirstFailure(i) == Log(i)[Lowest(Failures(i))]

ClaimedFields == {"status", "description", "embeddingId"}
EnrichmentFields == {"status", "imageDescription", "embeddingId"}

\* document `now` differs from `before` in the given fields at most
SameExcept(before, now, fields) ==
    \A f \in (DOMAIN before \cup DOMAIN now) \ fields :
        f \in DOMAIN before /\ f \in DOMAIN now /\ now[f] = before[f]

C10_Step ==
    /\ DOMAIN posts' = DOMAIN posts
    /\ posts' # posts =>
          \E i \in Invocations :
              /\ inv[i].pc = "update"
              /\ Happened(i, "findOne", inv[i].idx, "ok")
              /\ LET oid == ExpectedPostId[inv[i].event[inv[i].idx]]
                 IN  \A o \in DOMAIN posts :
                        IF o = oid
                        THEN /\ DOMAIN posts[o] \subseteq DOMAIN posts'[o]
                             /\ SameExcept(posts[o], posts'[o], EnrichmentFields)
                        ELSE posts'[o] = posts[o]

LastDescribed(i, k) ==
    /\ Happened(i, "describe", k, "ok")
    /\ \A k2 \in DOMAIN inv[i].event : k2 > k => ~Happened(i, "describe", k2, "ok")

\* DetectLabels answered record k of the invocation in slot i with no label
EmptyLabels(i, k) ==
    /\ variant = "bedrock"
    /\ LastDescribed(i, k)
    /\ inv[i].imageDescription = DescribeLabels(<<>>)

\* C11 (as stated): in the label-based variant, when DetectLabels answers a
\* record with an empty label set, no embed, persist or index call is made for
\* that record, and the invocation returns statusCode 500.
C11_EmptyLabelsFail ==
    \A i \in Invocations :
        \A k \in DOMAIN inv[i].event :
            EmptyLabels(i, k) =>
                /\ \A op \in {"embed", "update", "upsert"} : ~Happened(i, op, k, "issue")
                /\ Returned(i) => inv[i].result.statusCode = 500

\* text has neither leading nor trailing white space
Trimmed(text) ==
    text # <<>> => text[1] \notin WhiteSpace /\ text[Len(text)] \notin WhiteSpace

\* inner is full without its leading and trailing white space
IsTrimOf(inner, full) ==
    /\ Trimmed(inner)
    /\ \E a \in 1..(Len(full) + 1) :
          /\ a + Len(inner) - 1 <= Len(full)
          /\ \A n \in 1..Len(full) :
                IF n >= a /\ n < a + Len(inner)
                THEN full[n] = inner[n - a + 1]
                ELSE full[n] \in WhiteSpace

\* the post the invocation in slot i looked up for its current record
PostOf(i) == posts[ObjectId(inv[i].postId).val]

\* C12: the text given to the embedding call of a record is the description
\* alone when the record's post has no caption or an empty one, and otherwise
\* caption, one space, description, without leading and trailing white space;
\* so it is the same for the same caption and description.  In particular
\* combine("", "d") = "d", combine("cap", "d") = "cap d" and
\* combine(undefined, "d") = "d".
C12_CombinedText ==
    /\ Combine(<<>>, <<"d">>) = <<"d">>
    /\ Combine(<<"c","a","p">>, <<"d">>) = <<"c","a","p"," ","d">>
    /\ Combine(CaptionOf([f \in {"_id"} |-> IdC]), <<"d">>) = <<"d">>
    /\ \A i \in Invocations :
          inv[i].pc = "embed" =>
              LET r == inv[i]
                  post == PostOf(i)
              IN  IF "caption" \notin DOMAIN post \/ post["caption"] = <<>>
                  THEN r.combinedText = r.imageDescription
                  ELSE IsTrimOf(r.combinedText,
                                post["caption"] \o <<" ">> \o r.imageDescription)
    /\ \A i, j \in Invocations :
          (/\ inv[i].pc = "embed" /\ inv[j].pc = "embed"
           /\ inv[i].caption = inv[j].caption
           /\ inv[i].imageDescription = inv[j].imageDescription)
          => inv[i].combinedText = inv[j].combinedText

\* C12 witness: an embed call is issued for a post whose caption is a word
\* between blanks, with a text that starts with the word
C12_Witness ==
    \E i \in Invocations :
        /\ inv[i].pc = "embed"
        /\ HasField(PostOf(i), "caption")
        /\ PostOf(i)["caption"] = <<" ","x"," ">>
        /\ inv[i].combinedText[1] = "x"
        /\ Len(inv[i].combinedText) = Len(inv[i].imageDescription) + 3

\* the payload fields by the claim's list, and by each file's code
ClaimedPayloadFields == {"postId", "userId", "caption", "description"}
PayloadFields ==
    IF variant = "bedrock"
    THEN {"postId", "userId", "caption", "imageDescription"}
    ELSE {"postId", "userId", "caption", "imageDescription", "createdAt"}

\* the invocation in slot i is suspended in the upsert of its current record
Upserting(i) == inv[i].pc = "upsert"

PreviousStep ==
    [op \in AfterLookupOps |->
        CASE op = "download" -> "findOne"
          [] op = "describe" -> "download"
          [] op = "embed" -> "describe"
          [] op = "update" -> "embed"
          [] op = "upsert" -> "update"]

\* C14: within one record the remote steps are issued in the order lookup,
\* image fetch, describe, embed, persist, index, each right after the step
\* before it succeeded for the same record, the lookup right after the record
\* was begun; the text is combined between describe and embed, so the text
\* being embedded is the combination of the caption with this record's
\* description; the update is issued only with an embedding of that text, and
\* the upsert only after the update succeeded.
C14_StepOrder ==
    \A i \in Invocations :
        /\ \A n \in DOMAIN Log(i) :
              LET e == Log(i)[n]
              IN  /\ (e.ev = "issue" /\ e.op \in AfterLookupOps) =>
                        n > 1 /\ Log(i)[n - 1] = Ev(PreviousStep[e.op], e.rec, "ok", "")
                  /\ (e.ev = "issue" /\ e.op = "findOne") =>
                        n > 1 /\ Log(i)[n - 1] = Ev("iter", e.rec, "begin", "")
        /\ inv[i].pc \in {"embed", "update", "upsert"} =>
              /\ LastDescribed(i, inv[i].idx)
              /\ inv[i].combinedText = Combine(inv[i].caption, inv[i].imageDescription)
        /\ inv[i].pc \in {"update", "upsert"} =>
              /\ Happened(i, "embed", inv[i].idx, "ok")
              /\ inv[i].embedding \in EmbeddingAnswers(inv[i].combinedText)
        /\ inv[i].pc = "upsert" => Happened(i, "update", inv[i].idx, "ok")

\* C14 witness: the second record of an event went through all its steps, in
\* order, after the first was skipped
C14_Witness ==
    \E i \in Invocations :
        /\ Happened(i, "findOne", 1, "null")
        /\ Len(Log(i)) >= 18
        /\ SubSeq(Log(i), 6, 18) =
              << Ev("iter", 2, "begin", ""),
                 Ev("findOne", 2, "issue", ""), Ev("findOne", 2, "ok", ""),
                 Ev("download", 2, "issue", ""), Ev("download", 2, "ok", ""),
                 Ev("describe", 2, "issue", ""), Ev("describe", 2, "ok", ""),
                 Ev("embed", 2, "issue", ""), Ev("embed", 2, "ok", ""),
                 Ev("update", 2, "issue", ""), Ev("update", 2, "ok", ""),
                 Ev("upsert", 2, "issue", ""), Ev("upsert", 2, "ok", "") >>

\* the remote operations the claim lists
RetriableOps == RemoteOps \ {"close"}

\* C15: within one invocation connect is issued at most once and each of
\* lookup, image fetch, describe, embed, persist and index at most once per
\* event record; and after the first remote operation that failed, the only
\* remote operation issued is the connection close.
C15_NoRetry ==
    \A i \in Invocations :
        /\ Times(i, "connect", 0, "issue") <= 1
        /\ \A k \in DOMAIN inv[i].event :
              \A op \in RecordOps : Times(i, op, k, "issue") <= 1
        /\ \A n \in Failures(i) :
              Log(i)[n].op \in RetriableOps =>
                  \A m \in DOMAIN Log(i) :
                      (m > n /\ Log(i)[m].ev = "issue") => Log(i)[m].op = "close"

\* C15 witness: a returned invocation whose second record's lookup failed
\* after its first record was processed: one attempt, then only the close
C15_Witness ==
    \E i \in Invocations :
        /\ Returned(i)
        /\ Processed(i, 1)
        /\ Happened(i, "findOne", 2, "fail")
        /\ Times(i, "findOne", 2, "issue") = 1
        /\ Times(i, "close", 0, "issue") = 1
        /\ inv[i].result.statusCode = 500

\* C16 (as stated): when an invocation has returned, every post whose status
\* it set to "processed" (the update of one of its records succeeded) has at
\* least one point in the vector index whose payload postId is the post's id.
C16_PersistAndIndexTogether ==
    \A i \in Invocations :
        Returned(i) =>
            \A k \in DOMAIN inv[i].event :
                Happened(i, "update", k, "ok") =>
                    /\ posts[ExpectedPostId[inv[i].event[k]]]["status"] = "processed"
                    /\ \E q \in qdrant :
                          ObjectId(q.payload.postId).val = ExpectedPostId[inv[i].event[k]]

\* the embeddingId stored on a post (0: none)
StoredEmbeddingId(coll, o) ==
    IF HasField(coll[o], "embeddingId") THEN coll[o]["embeddingId"] ELSE 0

\* C17 (as stated): in index_with_bedrock, a step that completes a successful
\* upsert, by which its record is processed and its point is the most
\* recently upserted one of the post, leaves the post with that point's id as
\* its embeddingId; and the stored embeddingId changes only when an update of
\* that post completes, to an id no point has yet.  So after every successful
\* run on a post its embeddingId is the id of the point that run upserted.
C17_Step ==
    variant = "bedrock" =>
        /\ history' # history =>
              \E i \in Invocations :
                  /\ inv[i].pc = "upsert"
                  /\ Happened(i, "update", inv[i].idx, "ok")
                  /\ \E h \in history' \ history :
                        LET oid == ExpectedPostId[h.key]
                        IN  /\ h.run = inv[i].run /\ h.rec = inv[i].idx
                            /\ h.id = inv[i].point.id
                            /\ h.fresh
                            /\ \E q \in qdrant' \ qdrant :
                                  /\ q.id = h.id
                                  /\ ObjectId(q.payload.postId).val = oid
                            /\ StoredEmbeddingId(posts', oid) = h.id
        /\ \A o \in DOMAIN posts :
              StoredEmbeddingId(posts', o) # StoredEmbeddingId(posts, o) =>
                  \E i \in Invocations :
                      /\ inv[i].pc = "update"
                      /\ ObjectId(inv[i].postId).val = o
                      /\ StoredEmbeddingId(posts', o) = inv[i].embeddingId
                      /\ \A q \in qdrant : q.id # inv[i].embeddingId

C17_StoredIdIsLatestPoint == [][C17_Step]_vars

====
